---- MODULE Spec2Model ----
(***************************************************************************)
(* A model of python-zxing (src/zxing/__init__.py): the two output parsers *)
(* BarCode.parse_zxing and BarCode.parse_rxing, and the decode call of the *)
(* two readers (temporary files, backend invocation, failure               *)
(* classification, batch reordering).                                      *)
(*                                                                         *)
(* Bytes and text are sequences of tokens.  A token is a string standing   *)
(* for the bytes it spells; the one-byte tokens are listed in OneByte.     *)
(* A line is the token sequence of one element of splitlines(True), its    *)
(* terminator included.  Python's None is the empty set and a present      *)
(* value v is {v}.                                                         *)
(***************************************************************************)
EXTENDS Naturals, Sequences, FiniteSets, TLC

VARIABLES
    call,        \* which entry point runs: "decode", "parse_zxing", "parse_rxing"
    \* ---- _BarCodeReader.decode
    reader,      \* "zxing" or "rxing"
    inputs,      \* the filenames argument, as a sequence of inputs
    one_file,    \* decode's one_file flag
    pc,          \* position inside decode
    fns,         \* decode's fns list
    temp_files,  \* decode's temp_files list (names of the NamedTemporaryFile objects)
    tf_open,     \* names of temporary files that are open (and so exist on disk)
    pending,     \* the exception in flight inside decode's try block, or None
    invoked,     \* the file names the backend process was started on, in order
    stdout,      \* what the zxing backend run produced (None before the run)
    outcome,     \* how the call ended: returned value or raised exception
    \* ---- BarCode.parse_zxing, one line per step
    zs,          \* the parser's locals: block, uri, format, type, raw, parsed, raw_bits, points
    zline,       \* the line read last
    zprev,       \* the value of block when zline was read
    zn,          \* number of lines read
    \* ---- BarCode.parse_rxing
    payload,     \* the text of the barcode rxing-cli found (None when it found none)
    rs,          \* the parser's locals after its loop: format, raw, points
    \* ---- BarCode.path
    self,        \* the BarCode whose path is read
    \* ---- data_uri_to_fobj
    data_uri,    \* the argument s, as its characters
    content      \* the bytes and mime type s was built from (None when it was not built)

vars == <<call, reader, inputs, one_file, pc, fns, temp_files, tf_open, pending,
          invoked, stdout, outcome, zs, zline, zprev, zn, payload, rs, self, data_uri, content>>

-----------------------------------------------------------------------------
(* Bounds of the model *)

\* most inputs in one decode call
MaxFiles == 2
\* most blocks in one captured zxing stdout
MaxBlocks == 2
\* most lines fed to one parse_zxing call
MaxLines == 5
\* most pieces in the payload of a barcode handed to rxing-cli
MaxPayload == 3
\* most bytes in the content of a data URI
MaxBytes == 3

-----------------------------------------------------------------------------
(* Python values *)

None == {}
Some(v) == {v}
Val(o) == CHOOSE v \in o : TRUE

Last(s) == s[Len(s)]
Range(s) == {s[i] : i \in 1..Len(s)}

\* how a call ends: a returned value, or a raised exception with its arguments
Returned(v) == [kind |-> "return", value |-> v, exc |-> "", message |-> "", filename |-> None]
Raise(e, m, f) == [kind |-> "raise", value |-> <<>>, exc |-> e, message |-> m, filename |-> f]
\* an exception other than BarCodeReaderException
Raised(e) == Raise(e, "", None)
\* BarCodeReaderException(message, filename)
BarCodeReaderException(m, f) == Raise("BarCodeReaderException", m, Some(f))
Running == [kind |-> "running", value |-> <<>>, exc |-> "", message |-> "", filename |-> None]

-----------------------------------------------------------------------------
(* Tokens *)

SP == " "
NL == "\n"
HDR_TAIL == " (format: QR_CODE, type: TEXT):"
NO_BARCODE == ": No barcode found"
RAW_RESULT == "Raw result:"
PARSED_RESULT == "Parsed result:"
RAW_BITS == "Raw bits:"
FOUND_POINTS == "Found 1 result points:"
POINT0 == "Point 0: (24.0,18.0)"
FILE_SCHEME == "file://"
EXCEPTION == "Exception"

\* tokens of exactly one byte
OneByte == {SP, NL, "a", "b"}
\* tokens made of whitespace only
Whitespace == {SP, NL}
\* tokens whose first byte is whitespace
LeadingSpace == Whitespace \union {HDR_TAIL}

\* b[:-1] on one token of several bytes
ChopToken(t) ==
    CASE t = "f0" -> "f"
      [] t = RAW_RESULT -> "Raw result"
      [] t = PARSED_RESULT -> "Parsed result"
      [] t = RAW_BITS -> "Raw bits"
      [] t = NO_BARCODE -> ": No barcode foun"
      [] t = HDR_TAIL -> " (format: QR_CODE, type: TEXT)"
      [] t = FOUND_POINTS -> "Found 1 result points"
      [] t = POINT0 -> "Point 0: (24.0,18.0"
      [] OTHER -> t \o "[:-1]"

\* b[:-1]: all but the last byte (b'' stays b'')
DropLastByte(b) ==
    IF b = <<>> THEN <<>>
    ELSE IF Last(b) \in OneByte THEN SubSeq(b, 1, Len(b) - 1)
    ELSE SubSeq(b, 1, Len(b) - 1) \o <<ChopToken(Last(b))>>

RECURSIVE Join(_)
\* the text a token sequence spells
Join(b) == IF b = <<>> THEN "" ELSE b[1] \o Join(Tail(b))

RECURSIVE LStrip(_)
LStrip(b) == IF b # <<>> /\ b[1] \in Whitespace THEN LStrip(Tail(b)) ELSE b

RECURSIVE RStrip(_)
RStrip(b) ==
    IF b # <<>> /\ Last(b) \in Whitespace THEN RStrip(SubSeq(b, 1, Len(b) - 1)) ELSE b

\* bytes.strip()
Strip(b) == LStrip(RStrip(b))

\* bytes.startswith(t), for a marker token t
StartsWith(b, t) == b # <<>> /\ b[1] = t

\* l.strip().endswith(b': No barcode found')
EndsNoBarcode(l) == Strip(l) # <<>> /\ Last(Strip(l)) = NO_BARCODE

\* l.split(b':', 1)[0] in place of rsplit: the text before the first colon of l
SplitColon(l) ==
    IF l # <<>> /\ l[1] = FILE_SCHEME THEN <<"file">>
    ELSE LET k == CHOOSE i \in 1..Len(l) : l[i] = NO_BARCODE /\ \A j \in 1..(i-1) : l[j] # NO_BARCODE
         IN SubSeq(l, 1, k - 1)

\* l.rsplit(b':', 1)[0] for a line whose last colon opens its NO_BARCODE token
RSplitColon(l) ==
    LET k == CHOOSE i \in 1..Len(l) : l[i] = NO_BARCODE /\ \A j \in (i+1)..Len(l) : l[j] # NO_BARCODE
    IN SubSeq(l, 1, k - 1)

\* the length of the \S+ group when the header pattern matches at the start of l, else 0
HeaderGroup(l) ==
    IF \E k \in 1..Len(l) : l[k] \in LeadingSpace
    THEN LET k == CHOOSE i \in 1..Len(l) : l[i] \in LeadingSpace /\ \A j \in 1..(i-1) : l[j] \notin LeadingSpace
         IN IF k > 1 /\ l[k] = HDR_TAIL THEN k - 1 ELSE 0
    ELSE 0

\* groups 2 and 3 of the header pattern, read off the header's tail
HeaderFormat(t) == CASE t = HDR_TAIL -> "QR_CODE"
HeaderType(t) == CASE t = HDR_TAIL -> "TEXT"

\* re.match(rb"Found\s+\d+\s+result\s+points?", l)
FoundMatch(l) == StartsWith(l, FOUND_POINTS)

\* re.match(rb"\s*Point\s*\d+:\s*\(([-\d.]+),([-\d.]+)\)", l)
PointMatch(l) == LStrip(l) # <<>> /\ LStrip(l)[1] = POINT0

\* bytes.fromhex(text): whitespace skipped, then hex pairs only
HexOk(b) == \A i \in 1..Len(b) : b[i] \in Whitespace \union {"f0"}
FromHex(b) == SelectSeq(b, LAMBDA t : t \notin Whitespace)

-----------------------------------------------------------------------------
(* BarCode *)

BarCode(uri, format, type, raw, parsed, raw_bits, points) ==
    [uri |-> uri, format |-> format, type |-> type, raw |-> raw,
     parsed |-> parsed, raw_bits |-> raw_bits, points |-> points]

\* BarCode.__bool__
Truthy(c) == c.raw # None /\ Val(c.raw) # <<>>

-----------------------------------------------------------------------------
(* BarCode.parse_zxing *)

ZxInit ==
    [block |-> "UNKNOWN", uri |-> None, format |-> None, type |-> None,
     raw |-> <<>>, parsed |-> <<>>, raw_bits |-> <<>>, points |-> <<>>, ret |-> None]

\* block == UNKNOWN
ZxUnknown(s, l) ==
    IF EndsNoBarcode(l)
    THEN [s EXCEPT !.ret = Some(BarCode(Some(Join(RSplitColon(l))), None, None, None, None, None, None))]
    ELSE IF HeaderGroup(l) > 0
    THEN [s EXCEPT !.uri = Some(Join(SubSeq(l, 1, HeaderGroup(l)))),
                   !.format = Some(HeaderFormat(l[HeaderGroup(l) + 1])),
                   !.type = Some(HeaderType(l[HeaderGroup(l) + 1]))]
    ELSE IF StartsWith(l, RAW_RESULT) THEN [s EXCEPT !.block = "RAW"]
    ELSE s

\* block == RAW
ZxRaw(s, l) ==
    IF StartsWith(l, PARSED_RESULT) THEN [s EXCEPT !.block = "PARSED"]
    ELSE [s EXCEPT !.raw = @ \o l]

\* block == PARSED
ZxParsed(s, l) ==
    IF StartsWith(l, RAW_BITS) THEN [s EXCEPT !.block = "RAW_BITS"]
    ELSE IF FoundMatch(l) THEN [s EXCEPT !.block = "POINTS"]
    ELSE [s EXCEPT !.parsed = @ \o l]

\* block == RAW_BITS
ZxRawBits(s, l) ==
    IF FoundMatch(l) THEN [s EXCEPT !.block = "POINTS"]
    ELSE [s EXCEPT !.raw_bits = @ \o l]

\* block == POINTS
ZxPoints(s, l) ==
    IF PointMatch(l) THEN [s EXCEPT !.points = Append(@, "(24.0,18.0)")] ELSE s

\* one turn of the loop over zxing_output.splitlines(True)
ZxStep(s, l) ==
    CASE s.block = "UNKNOWN" -> ZxUnknown(s, l)
      [] s.block = "RAW" -> ZxRaw(s, l)
      [] s.block = "PARSED" -> ZxParsed(s, l)
      [] s.block = "RAW_BITS" -> ZxRawBits(s, l)
      [] s.block = "POINTS" -> ZxPoints(s, l)

\* the statements after the loop
ZxFinish(s) ==
    IF ~HexOk(DropLastByte(s.raw_bits)) THEN Raised("ValueError")
    ELSE Returned(BarCode(s.uri, s.format, s.type,
                          Some(DropLastByte(s.raw)), Some(DropLastByte(s.parsed)),
                          Some(FromHex(DropLastByte(s.raw_bits))), Some(s.points)))

RECURSIVE ZxLoop(_, _)
ZxLoop(s, lines) ==
    IF s.ret # None THEN Returned(Val(s.ret))
    ELSE IF lines = <<>> THEN ZxFinish(s)
    ELSE ZxLoop(ZxStep(s, lines[1]), Tail(lines))

\* BarCode.parse_zxing(zxing_output), zxing_output given as its lines
parse_zxing(lines) == ZxLoop(ZxInit, lines)

-----------------------------------------------------------------------------
(* Paths and URIs *)

\* the file names a caller passes: an absolute path, and a relative one with a space
FileNames == {"/d/a.png", "b c.png"}

\* pathlib.Path(fn).absolute(), the working directory being /cwd
Absolute(fn) == CASE fn = "b c.png" -> "/cwd/b c.png" [] OTHER -> fn

\* the percent-encoding as_uri() applies to a path
Quote(path) == CASE path = "/cwd/b c.png" -> "/cwd/b%20c.png" [] OTHER -> path

\* pathlib.Path(fn).absolute().as_uri(), as tokens and as text
UriTokens(fn) == <<FILE_SCHEME, Quote(Absolute(fn))>>
AsUri(fn) == Join(UriTokens(fn))

\* the tokens of a URI no caller asked for
FOREIGN_URI == <<FILE_SCHEME, "/x.png">>

\* the name of the i-th NamedTemporaryFile: prefix, unique part, suffix
TempName(kind, i) ==
    IF kind = "image" THEN "/tmp/PIL_image_" \o ToString(i) \o ".png"
    ELSE "/tmp/temp_" \o ToString(i)

-----------------------------------------------------------------------------
(* BarCode.parse_rxing *)

ERRP_HEAD == "Error while attempting to locate barcode in '"
ERRP_TAIL == "':"
BARCODE_FORMAT == "[Barcode Format] "
DATA == "[Data] "
POINTS == "[Points] "

\* RXING_FORMAT_TO_ZXING
RXING_FORMAT_TO_ZXING(f) == CASE f = "QRCODE" -> "QR_CODE" [] OTHER -> f

\* .replace(' ', '_').upper() on the format names rxing prints
NormalizeFormat(f) ==
    CASE f = "qrcode" -> "QRCODE"
      [] f = "code 128" -> "CODE_128"
      [] OTHER -> f

\* the hexadecimal digits the texts of the model are written with
HexDigits == {"0", "1", "6", "9", "a", "e", "f"}
\* the characters outside ASCII that a text of the model can hold
NonAscii == {"U+e9", "U+1f609"}

\* the digit of a value below 16
HexChar(n) == <<"0", "1", "2", "3", "4", "5", "6", "7", "8", "9", "a", "b", "c", "d", "e", "f">>[n + 1]

RECURSIVE ToHex(_)
\* the hexadecimal digits of a number
ToHex(n) == IF n < 16 THEN <<HexChar(n)>> ELSE ToHex(n \div 16) \o <<HexChar(n % 16)>>

RECURSIVE StripZeros(_)
StripZeros(d) == IF Len(d) > 1 /\ d[1] = "0" THEN StripZeros(Tail(d)) ELSE d

\* the character with the code point these hexadecimal digits spell
CodePoint(d) ==
    LET c == "U+" \o Join(StripZeros(d)) IN
    CASE c = "U+9" -> "\t"
      [] c = "U+a" -> "\n"
      [] c = "U+d" -> "\r"
      [] c = "U+61" -> "a"
      [] OTHER -> c

RECURSIVE RunLength(_, _)
\* how many elements of set S the text t starts with
RunLength(t, S) == IF t # <<>> /\ t[1] \in S THEN 1 + RunLength(Tail(t), S) ELSE 0

RECURSIVE RJust4(_)
\* m.group(1).rjust(4, '0')
RJust4(d) == IF Len(d) >= 4 THEN d ELSE RJust4(<<"0">> \o d)

RECURSIVE SubUnicodeEscape(_)
\* RUST_UNICODE_ESCAPE.sub(lambda m: r'\u' + m.group(1).rjust(4, '0'), raw): every
\* \u{h}, h one hex digit or more, becomes \u followed by h right-justified to 4
SubUnicodeEscape(t) ==
    IF t = <<>> THEN <<>>
    ELSE LET n == IF Len(t) >= 3 /\ SubSeq(t, 1, 3) = <<"\\", "u", "{">>
                  THEN RunLength(SubSeq(t, 4, Len(t)), HexDigits) ELSE 0
         IN IF n >= 1 /\ Len(t) >= 4 + n /\ t[4 + n] = "}"
            THEN <<"\\", "u">> \o RJust4(SubSeq(t, 4, 3 + n)) \o SubUnicodeEscape(SubSeq(t, 5 + n, Len(t)))
            ELSE <<t[1]>> \o SubUnicodeEscape(Tail(t))

\* .encode() of a character outside ASCII, its bytes then read as Latin-1
Utf8AsLatin1(c) ==
    CASE c = "U+e9" -> <<"U+c3", "U+a9">>
      [] c = "U+1f609" -> <<"U+f0", "U+9f", "U+98", "U+89">>

RECURSIVE OctalValue(_)
OctalValue(d) ==
    IF d = <<>> THEN 0
    ELSE 8 * OctalValue(SubSeq(d, 1, Len(d) - 1))
         + (CASE Last(d) = "0" -> 0 [] Last(d) = "1" -> 1 [] Last(d) = "6" -> 6)

RECURSIVE UnicodeEscapeDecode(_)
\* .encode().decode('unicode_escape'): {} stands for UnicodeDecodeError
UnicodeEscapeDecode(t) ==
    IF t = <<>> THEN Some(<<>>)
    ELSE LET then(out, rest) ==
                 IF UnicodeEscapeDecode(rest) = None THEN None
                 ELSE Some(out \o Val(UnicodeEscapeDecode(rest)))
             oct == IF Len(t) >= 2 THEN RunLength(SubSeq(t, 2, Len(t)), {"0", "1", "6"}) ELSE 0
             k == IF oct > 3 THEN 3 ELSE oct
         IN IF t[1] \in NonAscii THEN then(Utf8AsLatin1(t[1]), Tail(t))
            ELSE IF t[1] # "\\" THEN then(<<t[1]>>, Tail(t))
            ELSE IF Len(t) = 1 THEN None
            ELSE IF t[2] \in {"\\", "'", "\""} THEN then(<<t[2]>>, SubSeq(t, 3, Len(t)))
            ELSE IF t[2] = "n" THEN then(<<"\n">>, SubSeq(t, 3, Len(t)))
            ELSE IF t[2] = "t" THEN then(<<"\t">>, SubSeq(t, 3, Len(t)))
            ELSE IF t[2] = "r" THEN then(<<"\r">>, SubSeq(t, 3, Len(t)))
            ELSE IF t[2] = "a" THEN then(<<"U+7">>, SubSeq(t, 3, Len(t)))
            ELSE IF t[2] = "f" THEN then(<<"U+c">>, SubSeq(t, 3, Len(t)))
            ELSE IF t[2] = "u"
            THEN IF RunLength(SubSeq(t, 3, Len(t)), HexDigits) < 4 THEN None
                 ELSE then(<<CodePoint(SubSeq(t, 3, 6))>>, SubSeq(t, 7, Len(t)))
            ELSE IF k >= 1
            THEN then(<<CodePoint(ToHex(OctalValue(SubSeq(t, 2, 1 + k))))>>, SubSeq(t, 2 + k, Len(t)))
            ELSE then(<<"\\", t[2]>>, SubSeq(t, 3, Len(t)))

\* the value of raw after a [Data] line: {} when decoding raises
RxData(b) == UnicodeEscapeDecode(SubUnicodeEscape(b))

\* a line without its terminator, as splitlines() gives it
NoTerminator(l) == IF l # <<>> /\ Last(l) = NL THEN SubSeq(l, 1, Len(l) - 1) ELSE l

\* urllib.parse.unquote_plus on a path: %XX is decoded and + becomes a space
UnquotePlus(path) ==
    CASE path = "/cwd/b%20c.png" -> "/cwd/b c.png"
      [] path = "/tmp/a%2Bb.png" -> "/tmp/a+b.png"
      [] path = "/tmp/a+b.png" -> "/tmp/a b.png"
      [] OTHER -> path

\* the tokens that spell a path starting with "/"
RootedPaths ==
    {Quote(Absolute(fn)) : fn \in FileNames} \union {"/x.png", "/tmp/a%2Bb.png", "/tmp/a+b.png"}
    \union {TempName(k, i) : k \in {"image", "stream"}, i \in 1..(MaxFiles + 1)}

HTTP_SCHEME == "http://"
\* the tokens that spell a network location, a query with its ?, a fragment with its #
Netlocs == {"NETWORK_SHARE"}
Queries == {"?q"}
Fragments == {"#f"}

\* the URIs of the model, as tokens: scheme, network location, path, query, fragment,
\* of which only the scheme and the path are always there
Uris ==
    {<<sc>> \o n \o <<p>> \o q \o f :
        sc \in {FILE_SCHEME, HTTP_SCHEME},
        n \in {<<>>} \union {<<x>> : x \in Netlocs},
        p \in RootedPaths,
        q \in {<<>>} \union {<<x>> : x \in Queries},
        f \in {<<>>} \union {<<x>> : x \in Fragments}}

\* urllib.parse.urlparse(s): the components of the URI that the text s spells; a text
\* that spells no URI of the model is read as a bare path
urlparse(s) ==
    IF \E u \in Uris : Join(u) = s
    THEN LET u == CHOOSE u \in Uris : Join(u) = s
             part(S) == IF \E i \in 2..Len(u) : u[i] \in S
                        THEN u[CHOOSE i \in 2..Len(u) : u[i] \in S] ELSE ""
         IN [scheme |-> IF u[1] = FILE_SCHEME THEN "file" ELSE "http",
             netloc |-> part(Netlocs), path |-> part(RootedPaths),
             query |-> part(Queries), fragment |-> part(Fragments)]
    ELSE [scheme |-> "", netloc |-> "", path |-> s, query |-> "", fragment |-> ""]

\* file_uri_to_path(s): {} stands for the ValueError
file_uri_to_path(s) ==
    LET uri == urlparse(s) IN
    IF <<uri.scheme, uri.netloc, uri.query, uri.fragment>> # <<"file", "", "", "">> THEN None
    ELSE Some(UnquotePlus(uri.path))

\* the property BarCode.path: the ValueError is swallowed and None returned; a uri of
\* None is parsed to empty components
path(c) == IF c.uri = None THEN None ELSE file_uri_to_path(Val(c.uri))

\* the names parse_rxing can read: its parameters, its locals, the module's globals
RxingNames ==
    {"cls", "rxing_output", "fn", "errp", "err", "format", "raw", "points", "l", "m"}
    \union {"glob", "os", "pathlib", "re", "sp", "sys", "urllib", "zipfile", "BarCode",
            "BarCodeReaderException", "CLROutputBlock", "file_uri_to_path"}

\* the locals format, raw and points before the loop; exc is the exception the loop
\* was left with, None when it ran to its end
RxInit == [format |-> None, raw |-> <<>>, points |-> <<>>, exc |-> None]

RECURSIVE RxLoop(_, _)
\* the loop over rxing_output.splitlines()
RxLoop(s, lines) ==
    IF lines = <<>> \/ s.exc # None THEN s
    ELSE LET l == NoTerminator(lines[1]) IN
         RxLoop(IF StartsWith(l, BARCODE_FORMAT)
                THEN [s EXCEPT !.format = Some(RXING_FORMAT_TO_ZXING(NormalizeFormat(Join(Tail(l)))))]
                ELSE IF StartsWith(l, DATA)
                THEN IF RxData(Tail(l)) = None THEN [s EXCEPT !.exc = Some("UnicodeDecodeError")]
                     ELSE [s EXCEPT !.raw = Val(RxData(Tail(l)))]
                ELSE IF StartsWith(l, POINTS) THEN [s EXCEPT !.points = Tail(l)]
                ELSE s,
                Tail(lines))

\* rxing_output.startswith(errp)
RxStartsWithErrp(lines, fn) ==
    lines # <<>> /\ Len(lines[1]) >= 3 /\ SubSeq(lines[1], 1, 3) = <<ERRP_HEAD, fn, ERRP_TAIL>>

RECURSIVE Flatten(_)
\* the concatenation of a sequence of sequences
Flatten(ss) == IF ss = <<>> THEN <<>> ELSE ss[1] \o Flatten(Tail(ss))

\* the locals of parse_rxing when it reaches its last statement
RxLocals(lines, fn) == IF RxStartsWithErrp(lines, fn) THEN RxInit ELSE RxLoop(RxInit, lines)

\* BarCode.parse_rxing(rxing_output, fn), rxing_output given as its lines
parse_rxing(lines, fn) ==
    IF RxStartsWithErrp(lines, fn)
    THEN LET err == Join(Strip(SubSeq(Flatten(lines), 4, Len(Flatten(lines))))) IN
         IF err = "NotFoundException"
         THEN IF "path" \notin RxingNames THEN Raised("NameError")
              ELSE Returned(BarCode(Some(AsUri(fn)), None, None, None, None, None, None))
         ELSE BarCodeReaderException(err, fn)
    ELSE LET s == RxLocals(lines, fn) IN
         IF s.exc # None THEN Raised(Val(s.exc))
         ELSE IF "path" \notin RxingNames \/ "parsed" \notin RxingNames THEN Raised("NameError")
         ELSE Returned(BarCode(Some(AsUri(fn)), s.format, Some("TEXT"), Some(s.raw),
                               Some(s.raw), None, Some(s.points)))

\* the Rust repr rxing-cli prints for a character of the payload: backslash escapes,
\* and \u{h} for a character outside printable ASCII
RustRepr(c) ==
    CASE c = "\\" -> <<"\\", "\\">>
      [] c = "\n" -> <<"\\", "n">>
      [] c = "U+e9" -> <<"\\", "u", "{", "e", "9", "}">>
      [] c = "U+1f609" -> <<"\\", "u", "{", "1", "f", "6", "0", "9", "}">>
      [] OTHER -> <<c>>

\* the [Data] line rxing-cli prints for the payload p
DataLine(p) == <<DATA>> \o Flatten([i \in 1..Len(p) |-> RustRepr(p[i])]) \o <<NL>>

\* what rxing-cli prints for file fn
RxOutputs(fn) ==
    { << <<ERRP_HEAD, fn, ERRP_TAIL, SP, "NotFoundException", NL>> >>,
      << <<ERRP_HEAD, fn, ERRP_TAIL, SP, "UnsupportedOperationException", NL>> >>,
      << <<BARCODE_FORMAT, "qrcode", NL>>, <<POINTS, "[PointT { x: 1.5, y: -2 }]", NL>>,
         DataLine(<<"a", "U+e9">>) >>,
      << <<BARCODE_FORMAT, "code 128", NL>>, DataLine(<<"b">>) >> }

-----------------------------------------------------------------------------
(* data_uri_to_fobj *)

\* the characters of the Base64 alphabet, by value
B64Alphabet ==
    <<"A", "B", "C", "D", "E", "F", "G", "H", "I", "J", "K", "L", "M", "N", "O", "P",
      "Q", "R", "S", "T", "U", "V", "W", "X", "Y", "Z", "a", "b", "c", "d", "e", "f",
      "g", "h", "i", "j", "k", "l", "m", "n", "o", "p", "q", "r", "s", "t", "u", "v",
      "w", "x", "y", "z", "0", "1", "2", "3", "4", "5", "6", "7", "8", "9", "+", "/">>
B64Chars == Range(B64Alphabet)
\* the value of a Base64 character, the padding character counting as 0
B64Value(c) == IF c = "=" THEN 0 ELSE (CHOOSE n \in 1..Len(B64Alphabet) : B64Alphabet[n] = c) - 1

\* the digits of %XX escapes, and the value of one
HexAlphabet == {HexChar(n) : n \in 0..15}
HexValue(c) == CHOOSE n \in 0..15 : HexChar(n) = c

\* the byte of a character that stands for itself in a URI
Ord(c) == CASE c = "A" -> 65 [] c = "," -> 44 [] c = "%" -> 37 [] c = ";" -> 59 [] c = "=" -> 61

\* the bytes of one group of four Base64 characters, every group read as three bytes
B64GroupNoPadding(g) ==
    LET v == ((B64Value(g[1]) * 64 + B64Value(g[2])) * 64 + B64Value(g[3])) * 64 + B64Value(g[4])
    IN <<v \div 65536, (v \div 256) % 256, v % 256>>

\* the bytes of one group of four Base64 characters: three, less one for each "=" at its end
B64Group(g) ==
    LET v == ((B64Value(g[1]) * 64 + B64Value(g[2])) * 64 + B64Value(g[3])) * 64 + B64Value(g[4])
        pad == IF g[3] = "=" THEN 2 ELSE IF g[4] = "=" THEN 1 ELSE 0
    IN SubSeq(<<v \div 65536, (v \div 256) % 256, v % 256>>, 1, 3 - pad)

RECURSIVE B64Groups(_)
B64Groups(cs) == IF cs = <<>> THEN <<>> ELSE B64Group(SubSeq(cs, 1, 4)) \o B64Groups(SubSeq(cs, 5, Len(cs)))

RECURSIVE RStripPad(_)
\* a text without the "=" at its end
RStripPad(cs) == IF cs # <<>> /\ Last(cs) = "=" THEN RStripPad(SubSeq(cs, 1, Len(cs) - 1)) ELSE cs

\* b64decode(rest[0]), for a text whose "=" all stand at its end: characters outside the
\* alphabet are discarded; {} stands for binascii.Error (the padding is not right)
b64decode(cs) ==
    LET kept == SelectSeq(cs, LAMBDA c : c \in B64Chars \union {"="})
        data == RStripPad(kept)
        pads == Len(kept) - Len(data)
    IN IF Len(data) % 4 = 1 THEN None
       ELSE IF Len(data) % 4 = 2 /\ pads < 2 THEN None
       ELSE IF Len(data) % 4 = 3 /\ pads < 1 THEN None
       ELSE Some(B64Groups(data \o [i \in 1..((4 - (Len(data) % 4)) % 4) |-> "="]))

RECURSIVE unquote_to_bytes(_)
\* urllib.parse.unquote_to_bytes(rest[0]): %XX becomes the byte XX, any other character
\* its own byte
unquote_to_bytes(cs) ==
    IF cs = <<>> THEN <<>>
    ELSE IF cs[1] = "%" /\ Len(cs) >= 3 /\ cs[2] \in HexAlphabet /\ cs[3] \in HexAlphabet
    THEN <<16 * HexValue(cs[2]) + HexValue(cs[3])>> \o unquote_to_bytes(SubSeq(cs, 4, Len(cs)))
    ELSE <<Ord(cs[1])>> \o unquote_to_bytes(Tail(cs))

\* r.path of urllib.parse.urlparse(s) for s = scheme, then the rest: the rest up to the
\* first ? or #
UrlPath(rest) ==
    LET n == RunLength(rest, {c \in Range(rest) : c \notin {"?", "#"}}) IN SubSeq(rest, 1, n)

\* the index of the first "," of a text, 0 when it has none
FirstComma(t) == IF \E i \in 1..Len(t) : t[i] = "," THEN RunLength(t, Range(t) \ {","}) + 1 ELSE 0

\* mime.split("/")[-1]
LastOfSplitSlash(mime) ==
    IF \E i \in 1..Len(mime) : mime[i] = "/"
    THEN SubSeq(mime, 1 + (CHOOSE i \in 1..Len(mime) : mime[i] = "/" /\ \A j \in (i+1)..Len(mime) : mime[j] # "/"), Len(mime))
    ELSE mime

\* the BytesIO object: its content and its name
BytesIO(data, mime) ==
    [value |-> data,
     name |-> <<"data_uri_", ToString(Len(data)), "_bytes", ".">> \o LastOfSplitSlash(mime)]

\* data_uri_to_fobj(s), s given as its characters, the scheme with its colon being one
data_uri_to_fobj(s) ==
    IF s = <<>> \/ s[1] # "data:" \/ (Len(s) >= 2 /\ s[2] = "//") THEN Raised("ValueError")
    ELSE LET p == UrlPath(Tail(s))
             k == FirstComma(p)
             mime == SubSeq(p, 1, k - 1)
             rest == SubSeq(p, k + 1, Len(p))
         IN IF k = 0 THEN Raised("ValueError")
            ELSE IF mime # <<>> /\ Last(mime) = ";base64"
            THEN IF b64decode(rest) = None THEN Raised("binascii.Error")
                 ELSE Returned(BytesIO(Val(b64decode(rest)), SubSeq(mime, 1, Len(mime) - 1)))
            ELSE Returned(BytesIO(unquote_to_bytes(rest), mime))

-----------------------------------------------------------------------------
(* What the zxing backend prints *)

NO_MAIN_CLASS == "Error: Could not find or load main class com.google.zxing.client.j2se.CommandLineRunner"
IN_THREAD_NOCLASSDEF == "in thread \"main\" java.lang.NoClassDefFoundError:"
IN_THREAD_IIO == "in thread \"main\" javax.imageio.IIOException: Can't get input stream from URL!"
IN_THREAD_LOAD == "in thread \"main\" java.io.IOException: Could not load "
IN_THREAD_OTHER == "in thread \"main\" java.lang.IllegalStateException"
CAUSED_BY_FNF == "Caused by: java.io.FileNotFoundException: "
NO_JAVA_RUNTIME == "The operation couldn't be completed. Unable to locate a Java Runtime."
PICKED_UP == "Picked up JAVA_TOOL_OPTIONS: -Xmx1g"
STACK_FRAME == "\tat com.google.zxing.client.j2se.CommandLineRunner.main"

\* the kinds of block the backend prints for one file, b.uri being the file's URI tokens:
\* a decoded barcode, one whose payload has a line starting with file://, no barcode;
\* and the blocks an exception leaves: an image that could not be loaded, another exception
FileBlockKinds == {"ok", "okfile", "nobar"}
ErrorBlockKinds == {"load", "exc"}

BlockLines(b) ==
    CASE b.kind = "ok" ->
           << b.uri \o <<HDR_TAIL, NL>>, <<RAW_RESULT, NL>>, <<"a", NL>>,
              <<PARSED_RESULT, NL>>, <<"a", NL>>, <<FOUND_POINTS, NL>>, <<SP, SP, POINT0, NL>> >>
      [] b.kind = "okfile" ->
           << b.uri \o <<HDR_TAIL, NL>>, <<RAW_RESULT, NL>>, <<"a", NL>>, <<FILE_SCHEME, "b", NL>>,
              <<PARSED_RESULT, NL>>, <<"a", NL>>, <<FILE_SCHEME, "b", NL>>,
              <<FOUND_POINTS, NL>>, <<SP, SP, POINT0, NL>> >>
      [] b.kind = "nobar" -> << b.uri \o <<NO_BARCODE, NL>> >>
      [] b.kind = "load" ->
           << <<EXCEPTION, SP, IN_THREAD_LOAD>> \o b.uri \o <<NL>>, <<STACK_FRAME, NL>> >>
      [] b.kind = "exc" -> << <<EXCEPTION, SP, IN_THREAD_OTHER, NL>>, <<STACK_FRAME, NL>> >>

\* what the process prints before any block: nothing, the launcher's or the JVM's
\* complaint, a JVM notice, or the exception of an image that could not be opened
HeadKinds == {"", "noclass", "noclassdef", "nojava", "notice", "iio"}

HeadLines(h, file) ==
    CASE h = "" -> <<>>
      [] h = "noclass" -> << <<NO_MAIN_CLASS, NL>> >>
      [] h = "noclassdef" -> << <<EXCEPTION, SP, IN_THREAD_NOCLASSDEF, NL>>, <<STACK_FRAME, NL>> >>
      [] h = "nojava" -> << <<NO_JAVA_RUNTIME, NL>> >>
      [] h = "notice" -> << <<PICKED_UP, NL>> >>
      [] h = "iio" ->
           << <<EXCEPTION, SP, IN_THREAD_IIO, NL>>, <<STACK_FRAME, NL>>,
              <<CAUSED_BY_FNF, file, " (", "No such file or directory)", NL>> >>

\* stdout.splitlines(True) of the captured output
StdoutLines(out) ==
    HeadLines(out.head, out.path) \o Flatten([i \in 1..Len(out.blocks) |-> BlockLines(out.blocks[i])])

\* stdout.startswith(p), p a sequence of tokens
StdoutStartsWith(lines, p) ==
    lines # <<>> /\ Len(lines[1]) >= Len(p) /\ SubSeq(lines[1], 1, Len(p)) = p

-----------------------------------------------------------------------------
(* ZxingBarCodeReader._decode *)

\* the line "Caused by: java.io.FileNotFoundException: ..." split into (fn, err)
CausedBy(lines) ==
    LET hits == SelectSeq(lines, LAMBDA l : StartsWith(l, CAUSED_BY_FNF)) IN
    IF hits = <<>> THEN [fn |-> "", err |-> ""]
    ELSE LET l == NoTerminator(hits[1])
             k == CHOOSE i \in 1..Len(l) : l[i] = " (" /\ \A j \in (i+1)..Len(l) : l[j] # " ("
         IN [fn |-> Join(SubSeq(l, 2, k - 1)), err |-> Join(SubSeq(l, k + 1, Len(l)))]

\* stdout.splitlines()[0][63:]: the URI that ends the first line
LoadedUri(lines) == SubSeq(NoTerminator(lines[1]), 4, Len(NoTerminator(lines[1])))

\* the return code tested before the prefixes of stdout, in place of after them
ClassifyReturncodeFirst(lines, returncode, java, classpath) ==
    IF returncode # 0
    THEN BarCodeReaderException("Unexpected Java subprocess return code", java)
    ELSE IF StdoutStartsWith(lines, <<NO_MAIN_CLASS>>)
            \/ StdoutStartsWith(lines, <<EXCEPTION, SP, IN_THREAD_NOCLASSDEF>>)
    THEN BarCodeReaderException("Java JARs not found in classpath", classpath)
    ELSE IF StdoutStartsWith(lines, <<EXCEPTION, SP>>)
    THEN BarCodeReaderException("Unknown Java exception", java)
    ELSE Running

\* the if/elif chain on stdout and the return code: the exception raised, or Running
Classify(lines, returncode, java, classpath) ==
    IF StdoutStartsWith(lines, <<NO_MAIN_CLASS>>)
       \/ StdoutStartsWith(lines, <<EXCEPTION, SP, IN_THREAD_NOCLASSDEF>>)
    THEN BarCodeReaderException("Java JARs not found in classpath", classpath)
    ELSE IF StdoutStartsWith(lines, <<EXCEPTION, SP, IN_THREAD_IIO>>)
    THEN BarCodeReaderException("Java library could not read image", CausedBy(lines).fn)
    ELSE IF StdoutStartsWith(lines, <<EXCEPTION, SP, IN_THREAD_LOAD>>)
    THEN IF file_uri_to_path(Join(LoadedUri(lines))) = None THEN Raised("ValueError")
         ELSE BarCodeReaderException("Java library could not read image (is it in a supported format?)",
                                     Val(file_uri_to_path(Join(LoadedUri(lines)))))
    ELSE IF StdoutStartsWith(lines, <<EXCEPTION, SP>>)
    THEN BarCodeReaderException("Unknown Java exception", java)
    ELSE IF StdoutStartsWith(lines, <<NO_JAVA_RUNTIME>>)
    THEN BarCodeReaderException("Unable to locate Java runtime (check JAVA_HOME variable and other configuration)", java)
    ELSE IF returncode # 0
    THEN BarCodeReaderException("Unexpected Java subprocess return code", java)
    ELSE Running

\* line.startswith((b'file://', b'Exception'))
IsBoundary(l) == StartsWith(l, FILE_SCHEME) \/ StartsWith(l, EXCEPTION)

RECURSIVE SplitBlocks(_, _)
\* the loop that builds file_results; {} when file_results[-1] is read on an empty list
SplitBlocks(file_results, lines) ==
    IF lines = <<>> THEN Some(file_results)
    ELSE IF IsBoundary(lines[1]) THEN SplitBlocks(Append(file_results, <<lines[1]>>), Tail(lines))
    ELSE IF file_results = <<>> THEN None
    ELSE SplitBlocks([file_results EXCEPT ![Len(file_results)] = Append(@, lines[1])], Tail(lines))

\* codes = [BarCode.parse_zxing(result) for result in file_results], as outcomes
Codes(file_results) == [i \in 1..Len(file_results) |-> parse_zxing(file_results[i])]

\* d = {c.uri: c for c in codes}: the last code of each uri
Dict(codes) ==
    [u \in {codes[i].uri : i \in 1..Len(codes)} |->
        codes[CHOOSE i \in 1..Len(codes) :
                 codes[i].uri = u /\ \A j \in (i+1)..Len(codes) : codes[j].uri # u]]

\* return codes in place of the lookup by URI: the results in the order of the output
ReorderPositional(codes, file_uris) == Returned(codes)

\* return [d[f] for f in file_uris]
Reorder(codes, file_uris) ==
    LET d == Dict(codes) IN
    IF \E i \in 1..Len(file_uris) : Some(file_uris[i]) \notin DOMAIN d THEN Raised("KeyError")
    ELSE Returned([i \in 1..Len(file_uris) |-> d[Some(file_uris[i])]])

\* the statements of _decode after p.communicate()
ZxingParse(lines, returncode, file_uris, java, classpath) ==
    IF Classify(lines, returncode, java, classpath) # Running
    THEN Classify(lines, returncode, java, classpath)
    ELSE IF SplitBlocks(<<>>, lines) = None THEN Raised("IndexError")
    ELSE LET outs == Codes(Val(SplitBlocks(<<>>, lines))) IN
         IF \E i \in 1..Len(outs) : outs[i].kind = "raise"
         THEN outs[CHOOSE i \in 1..Len(outs) : outs[i].kind = "raise" /\ \A j \in 1..(i-1) : outs[j].kind # "raise"]
         ELSE Reorder([i \in 1..Len(outs) |-> outs[i].value], file_uris)

-----------------------------------------------------------------------------
(* RxingBarCodeReader._decode *)

RXING_CLI == "rxing-cli"
JAVA == "java"
CLASSPATH == "java/*"

\* how one sp.check_output call on fn can end: the program cannot be started, it exits
\* with a nonzero code, or it exits with 0 having printed one of RxOutputs(fn)
RxRuns(fn) ==
    {[fn |-> fn, status |-> st, lines |-> <<>>] : st \in {"OSError", "CalledProcessError"}}
    \union {[fn |-> fn, status |-> "ok", lines |-> o] : o \in RxOutputs(fn)}

\* the value or exception of one element of the list comprehension
RxOne(run) ==
    IF run.status = "ok" THEN parse_rxing(run.lines, run.fn) ELSE Raised(run.status)

\* index of the first run that raises, 0 when none does
RxFirstRaise(runs) ==
    IF \E i \in 1..Len(runs) : RxOne(runs[i]).kind = "raise"
    THEN CHOOSE i \in 1..Len(runs) : RxOne(runs[i]).kind = "raise"
                                     /\ \A j \in 1..(i-1) : RxOne(runs[j]).kind # "raise"
    ELSE 0

\* the try/except around the list comprehension
RxingParse(runs) ==
    LET k == RxFirstRaise(runs) IN
    IF k = 0 THEN Returned([i \in 1..Len(runs) |-> RxOne(runs[i]).value])
    ELSE IF RxOne(runs[k]).exc = "OSError"
    THEN BarCodeReaderException("Could not execute specified rxing-cli binary", RXING_CLI)
    ELSE RxOne(runs[k])

-----------------------------------------------------------------------------
(* _BarCodeReader.decode *)

\* PIL and tempfile were imported
have_pil == TRUE

\* one element of filenames: a path, an open binary stream, a PIL image
Inputs ==
    {[kind |-> "path", name |-> fn] : fn \in FileNames}
    \union {[kind |-> k, name |-> ""] : k \in {"stream", "image"}}

\* the filenames argument: one bare input, or a sequence of one input or more
Arguments ==
    {[bare |-> TRUE, items |-> <<x>>] : x \in Inputs}
    \union {[bare |-> FALSE, items |-> xs] : xs \in UNION {[1..n -> Inputs] : n \in 1..MaxFiles}}

\* the blocks the backend may print when run on the files with these URIs
BlockChoices(uris) ==
    {[kind |-> k, uri |-> u] : k \in FileBlockKinds, u \in uris}
    \union {[kind |-> "ok", uri |-> FOREIGN_URI]}
    \union {[kind |-> "load", uri |-> u] : u \in uris}
    \union {[kind |-> "exc", uri |-> <<>>]}

\* what one run of the backend on fns may leave: stdout and the return code
Stdouts(fs) ==
    LET uris == {UriTokens(fs[i]) : i \in 1..Len(fs)}
        seqs(n) == UNION {[1..k -> BlockChoices(uris)] : k \in 0..n}
        failed(bs) == bs = <<>> \/ \E i \in 1..Len(bs) : bs[i].kind \in ErrorBlockKinds
    IN {[head |-> "", path |-> "", blocks |-> bs, returncode |-> 0] : bs \in seqs(MaxBlocks) \ {<<>>}}
       \union {[head |-> "", path |-> "", blocks |-> bs, returncode |-> 1] :
            bs \in {b \in seqs(MaxBlocks) : failed(b)}}
       \union {[head |-> h, path |-> Absolute(fs[1]), blocks |-> <<>>, returncode |-> rc] :
            h \in {"noclass", "noclassdef", "nojava", "iio"}, rc \in {0, 1}}
       \union {[head |-> "notice", path |-> "", blocks |-> bs, returncode |-> 0] : bs \in seqs(1)}

\* tf.close() after the loop in place of a loop of tf.close(): only the last file is closed
FinallyLast(files, open) == IF files = <<>> THEN open ELSE open \ {Last(files)}

\* the finally clause: the temporary files still open once every tf.close() has run
Finally(files, open) == open \ Range(files)

DecodeInit ==
    /\ call = "decode"
    /\ reader \in {"zxing", "rxing"}
    /\ inputs \in Arguments
    /\ one_file = FALSE
    /\ pc = "begin"
    /\ fns = <<>>
    /\ temp_files = <<>>
    /\ tf_open = {}
    /\ pending = Running
    /\ invoked = <<>>
    /\ stdout = None
    /\ outcome = Running
    /\ zs = ZxInit
    /\ zline = <<>>
    /\ zprev = "UNKNOWN"
    /\ zn = 0
    /\ payload = None
    /\ rs = RxInit
    /\ self = BarCode(None, None, None, None, None, None, None)
    /\ data_uri = <<>>
    /\ content = None

parse_vars == <<zs, zline, zprev, zn, payload, rs, self, data_uri, content>>

\* lines 70-79: one_file is set and filenames made a sequence
DecodeBegin ==
    /\ call = "decode" /\ pc = "begin"
    /\ one_file' = inputs.bare
    /\ pc' = "materialize"
    /\ UNCHANGED <<call, reader, inputs, fns, temp_files, tf_open, pending, invoked, stdout,
                   outcome, parse_vars>>

\* the input the for loop is at
Current == inputs.items[Len(fns) + 1]

\* one turn of the for loop on a path
MaterializePath ==
    /\ call = "decode" /\ pc = "materialize" /\ Len(fns) < Len(inputs.items)
    /\ ~(have_pil /\ Current.kind = "image") /\ Current.kind # "stream"
    /\ fns' = Append(fns, Current.name)
    /\ UNCHANGED <<call, reader, inputs, one_file, pc, temp_files, tf_open, pending, invoked,
                   stdout, outcome, parse_vars>>

\* one turn of the for loop on an image or a stream: the temporary file cannot be
\* created, or it is created and writing it fails, or it is written
MaterializeTemp(kind) ==
    /\ call = "decode" /\ pc = "materialize" /\ Len(fns) < Len(inputs.items)
    /\ Current.kind = kind
    /\ LET tf == TempName(kind, Len(fns) + 1) IN
       \E how \in {"uncreated", "unwritten", "written"} :
          /\ temp_files' = IF how = "uncreated" THEN temp_files ELSE Append(temp_files, tf)
          /\ tf_open' = IF how = "uncreated" THEN tf_open ELSE tf_open \union {tf}
          /\ fns' = IF how = "written" THEN Append(fns, tf) ELSE fns
          /\ pending' = IF how = "written" THEN pending ELSE Raised("OSError")
          /\ pc' = IF how = "written" THEN pc ELSE "finally"
    /\ UNCHANGED <<call, reader, inputs, one_file, invoked, stdout, outcome, parse_vars>>

MaterializeImage == have_pil /\ MaterializeTemp("image")

MaterializeStream == MaterializeTemp("stream")

\* self._decode of ZxingBarCodeReader: java cannot be started, or it runs and its
\* output is classified, split, parsed and reordered
ZxingDecode ==
    /\ call = "decode" /\ pc = "materialize" /\ Len(fns) = Len(inputs.items)
    /\ reader = "zxing"
    /\ \/ /\ pending' = BarCodeReaderException("Could not execute specified Java binary", JAVA)
          /\ UNCHANGED stdout
       \/ \E out \in Stdouts(fns) :
          /\ stdout' = Some(out)
          /\ pending' = ZxingParse(StdoutLines(out), out.returncode,
                                   [i \in 1..Len(fns) |-> AsUri(fns[i])], JAVA, CLASSPATH)
    /\ pc' = "finally"
    /\ UNCHANGED <<call, reader, inputs, one_file, fns, temp_files, tf_open, invoked, outcome,
                   parse_vars>>

\* self._decode of RxingBarCodeReader: rxing-cli is run on each file in turn until
\* one of the runs, or the parsing of its output, raises
RxingDecode ==
    /\ call = "decode" /\ pc = "materialize" /\ Len(fns) = Len(inputs.items)
    /\ reader = "rxing"
    /\ \E runs \in [1..Len(fns) -> UNION {RxRuns(fns[i]) : i \in 1..Len(fns)}] :
          /\ \A i \in 1..Len(fns) : runs[i].fn = fns[i]
          /\ invoked' = IF RxFirstRaise(runs) = 0 THEN runs ELSE SubSeq(runs, 1, RxFirstRaise(runs))
          /\ pending' = RxingParse(runs)
    /\ pc' = "finally"
    /\ UNCHANGED <<call, reader, inputs, one_file, fns, temp_files, tf_open, stdout, outcome,
                   parse_vars>>

\* lines 99-101
DecodeFinally ==
    /\ call = "decode" /\ pc = "finally"
    /\ tf_open' = Finally(temp_files, tf_open)
    /\ pc' = "end"
    /\ UNCHANGED <<call, reader, inputs, one_file, fns, temp_files, pending, invoked, stdout,
                   outcome, parse_vars>>

\* lines 103-106, or the exception of the try block leaving decode
DecodeEnd ==
    /\ call = "decode" /\ pc = "end"
    /\ outcome' = IF pending.kind = "raise" THEN pending
                  ELSE IF one_file THEN Returned(pending.value[1])
                  ELSE Returned(pending.value)
    /\ pc' = "done"
    /\ UNCHANGED <<call, reader, inputs, one_file, fns, temp_files, tf_open, pending, invoked,
                   stdout, parse_vars>>

Next ==
    \/ DecodeBegin
    \/ MaterializePath
    \/ MaterializeImage
    \/ MaterializeStream
    \/ ZxingDecode
    \/ RxingDecode
    \/ DecodeFinally
    \/ DecodeEnd

Spec == DecodeInit /\ [][Next]_vars

-----------------------------------------------------------------------------
(* The parsers called on their own *)

\* the lines parse_zxing is fed: headers, markers, payload lines with and without a
\* terminator, an empty line, a line of hex digits, lines ending in ": No barcode found"
ZxLines ==
    { <<FILE_SCHEME, "/d/a.png", HDR_TAIL, NL>>,
      <<FILE_SCHEME, "/d/a.png", NO_BARCODE, NL>>,
      <<SP, "a", NO_BARCODE, SP, NL>>,
      <<RAW_RESULT, NL>>,
      <<PARSED_RESULT, NL>>,
      <<RAW_BITS, NL>>,
      <<FOUND_POINTS, NL>>,
      <<SP, SP, POINT0, NL>>,
      <<"a", NL>>,
      <<"a">>,
      <<NL>>,
      <<SP, SP, "f0", NL>> }

\* the pieces a barcode's payload is made of: single characters, and the text u{a}
PayloadPieces == {"a", "\\", "\n", "U+e9", "U+1f609", "u{a}"}
PieceChars(c) == CASE c = "u{a}" -> <<"u", "{", "a", "}">> [] OTHER -> <<c>>

\* the payloads, each as its sequence of characters
Payloads ==
    {Flatten([i \in 1..Len(q) |-> PieceChars(q[i])]) :
        q \in UNION {[1..n -> PayloadPieces] : n \in 0..MaxPayload}}

\* the file names parse_rxing is given, and the outputs: those of RxOutputs, the report
\* of another file's failure, and what rxing-cli prints for a barcode with a given payload
RxArguments ==
    UNION {{[fn |-> fn, lines |-> o, payload |-> None] : o \in RxOutputs(fn)} : fn \in FileNames}
    \union {[fn |-> "/d/a.png", payload |-> None,
             lines |-> << <<ERRP_HEAD, "/x.png", ERRP_TAIL, SP, "NotFoundException", NL>> >>]}
    \union {[fn |-> "/d/a.png", payload |-> Some(p),
             lines |-> << <<BARCODE_FORMAT, "qrcode", NL>>, DataLine(p) >>] : p \in Payloads}

\* the BarCodes whose path is read: for every URI a failure Result and a successful one,
\* and the Result of an output without header, whose uri is None
BarCodes ==
    {BarCode(Some(Join(u)), None, None, None, None, None, None) : u \in Uris}
    \union {BarCode(Some(Join(u)), Some("QR_CODE"), Some("TEXT"), Some(<<"a">>), Some(<<"a">>),
                    Some(<<>>), Some(<<>>)) : u \in Uris}
    \union {BarCode(None, None, None, Some(<<>>), Some(<<>>), Some(<<>>), Some(<<>>))}

\* the bytes and the mime types data URIs are built from
ByteValues == {0, 37, 44, 63, 65, 255}
Mimes == {<<"image", "/", "png">>, <<"application", "/", "binary">>}

RECURSIVE B64Encode(_)
\* the Base64 text of a byte sequence, padded with "="
B64Encode(bs) ==
    IF bs = <<>> THEN <<>>
    ELSE LET b(i) == IF i <= Len(bs) THEN bs[i] ELSE 0
             v == (b(1) * 256 + b(2)) * 256 + b(3)
             cs == <<B64Alphabet[(v \div 262144) + 1], B64Alphabet[((v \div 4096) % 64) + 1],
                     B64Alphabet[((v \div 64) % 64) + 1], B64Alphabet[(v % 64) + 1]>>
         IN IF Len(bs) = 1 THEN <<cs[1], cs[2], "=", "=">>
            ELSE IF Len(bs) = 2 THEN <<cs[1], cs[2], cs[3], "=">>
            ELSE cs \o B64Encode(SubSeq(bs, 4, Len(bs)))

\* the percent-encoding of a byte: an unreserved character stands for itself
QuoteByte(b) == IF b = 65 THEN <<"A">> ELSE <<"%", HexChar(b \div 16), HexChar(b % 16)>>

\* what a data URI is built from, and the URI:
\* data:<mime>;base64,<base64 of the bytes> or data:<mime>,<percent-encoding of the bytes>
Contents ==
    {[bytes |-> bs, mime |-> m, base64 |-> e] :
        bs \in UNION {[1..n -> ByteValues] : n \in 0..MaxBytes}, m \in Mimes, e \in BOOLEAN}
DataUri(c) ==
    <<"data:">> \o c.mime \o (IF c.base64 THEN <<";base64">> ELSE <<>>) \o <<",">>
    \o (IF c.base64 THEN B64Encode(c.bytes)
        ELSE Flatten([i \in 1..Len(c.bytes) |-> QuoteByte(c.bytes[i])]))

\* other arguments: no comma, another scheme, a network location, Base64 text cut short,
\* a query after the data
OtherUris ==
    { <<"data:", "image", "/", "png">>,
      <<"http:", "//", "x", ",", "A">>,
      <<"data:", "//", "x", ",", "A">>,
      <<"data:", "image", "/", "png", ";base64", ",", "A", "A", "A">>,
      <<"data:", "image", "/", "png", ",", "A", "?", "A">> }

ParseInit ==
    /\ call \in {"parse_zxing", "parse_rxing", "path", "data_uri_to_fobj"}
    /\ reader = "none"
    /\ inputs = [bare |-> FALSE, items |-> <<>>]
    /\ one_file = FALSE
    /\ pc = "begin"
    /\ fns = <<>>
    /\ temp_files = <<>>
    /\ tf_open = {}
    /\ pending = Running
    /\ invoked = <<>>
    /\ stdout = None
    /\ outcome = Running
    /\ zs = ZxInit
    /\ zline = <<>>
    /\ zprev = "UNKNOWN"
    /\ zn = 0
    /\ payload = None
    /\ rs = RxInit
    /\ self \in IF call = "path" THEN BarCodes
                 ELSE {BarCode(None, None, None, None, None, None, None)}
    /\ content \in IF call = "data_uri_to_fobj" THEN {Some(c) : c \in Contents} \union {None}
                    ELSE {None}
    /\ data_uri \in IF content # None THEN {DataUri(Val(content))}
                     ELSE IF call = "data_uri_to_fobj" THEN OtherUris ELSE {<<>>}

decode_vars == <<reader, inputs, one_file, fns, temp_files, tf_open, pending, stdout>>

\* one turn of parse_zxing's loop: the next line of the output is read
ZxReadLine ==
    /\ call = "parse_zxing" /\ pc = "begin"
    /\ zn < MaxLines
    /\ zn > 0 => Last(zline) = NL
    /\ \E l \in ZxLines :
          /\ zs' = ZxStep(zs, l)
          /\ zline' = l
    /\ zprev' = zs.block
    /\ zn' = zn + 1
    /\ pc' = IF zs'.ret # None THEN "done" ELSE pc
    /\ outcome' = IF zs'.ret # None THEN Returned(Val(zs'.ret)) ELSE outcome
    /\ UNCHANGED <<call, decode_vars, invoked, payload, rs, self, data_uri, content>>

\* the output has no more lines: the statements after the loop
ZxEnd ==
    /\ call = "parse_zxing" /\ pc = "begin"
    /\ outcome' = ZxFinish(zs)
    /\ pc' = "done"
    /\ UNCHANGED <<call, decode_vars, invoked, parse_vars>>

\* BarCode.parse_rxing(rxing_output, fn)
RxParse ==
    /\ call = "parse_rxing" /\ pc = "begin"
    /\ \E a \in RxArguments :
          /\ invoked' = <<[fn |-> a.fn, status |-> "ok", lines |-> a.lines]>>
          /\ payload' = a.payload
          /\ rs' = RxLocals(a.lines, a.fn)
          /\ outcome' = parse_rxing(a.lines, a.fn)
    /\ pc' = "done"
    /\ UNCHANGED <<call, decode_vars, zs, zline, zprev, zn, self, data_uri, content>>

\* the property BarCode.path is read
PathRead ==
    /\ call = "path" /\ pc = "begin"
    /\ outcome' = Returned(path(self))
    /\ pc' = "done"
    /\ UNCHANGED <<call, decode_vars, invoked, parse_vars>>

\* data_uri_to_fobj(s)
DataUriToFobj ==
    /\ call = "data_uri_to_fobj" /\ pc = "begin"
    /\ outcome' = data_uri_to_fobj(data_uri)
    /\ pc' = "done"
    /\ UNCHANGED <<call, decode_vars, invoked, parse_vars>>

ParseNext ==
    \/ ZxReadLine
    \/ ZxEnd
    \/ RxParse
    \/ PathRead
    \/ DataUriToFobj

ParseSpec == ParseInit /\ [][ParseNext]_vars

-----------------------------------------------------------------------------
(* Properties *)

\* the permutations of 1..n
Perms(n) == {p \in [1..n -> 1..n] : \A i, j \in 1..n : p[i] = p[j] => i = j}

\* the backend ran, exited with 0 and printed one block per requested file, a decoded
\* barcode or "No barcode found", in some order
OneBlockPerFile(out, fs) ==
    /\ out.head = "" /\ out.returncode = 0
    /\ Len(out.blocks) = Len(fs)
    /\ \E p \in Perms(Len(fs)) : \A i \in 1..Len(fs) :
          out.blocks[i].kind \in FileBlockKinds /\ out.blocks[i].uri = UriTokens(fs[p[i]])

ZxingRan == call = "decode" /\ reader = "zxing" /\ pc = "done" /\ stdout # None

\* C1: when the zxing backend prints one block per requested file, in any order, _decode
\* returns a list as long as the request whose i-th Result carries the URI of the i-th file.
C1_BatchOrder ==
    (ZxingRan /\ OneBlockPerFile(Val(stdout), fns))
    => /\ pending.kind = "return"
       /\ Len(pending.value) = Len(fns)
       /\ \A i \in 1..Len(fns) : pending.value[i].uri = Some(AsUri(fns[i]))

\* C1 witness: two different files whose blocks came out in the opposite order
C1_Witness ==
    /\ ZxingRan /\ OneBlockPerFile(Val(stdout), fns)
    /\ Len(fns) = 2 /\ fns[1] # fns[2]
    /\ Val(stdout).blocks[1].uri = UriTokens(fns[2])
    /\ pending.kind = "return"

\* the Results parse_zxing returned for the blocks of the output, when the output got as
\* far as being split and parsed
ParsedCodes(out) ==
    LET lines == StdoutLines(out)
        fr == SplitBlocks(<<>>, lines)
    IN IF Classify(lines, out.returncode, JAVA, CLASSPATH) # Running \/ fr = None THEN {}
       ELSE {parse_zxing(Val(fr)[i]).value : i \in {j \in 1..Len(Val(fr)) : parse_zxing(Val(fr)[j]).kind = "return"}}

\* C2: a zxing batch in which some parsed block yields a Result carrying a URI that is
\* the URI of no requested file ends in an error; it does not return a list.
C2_UnmatchedIsFatal ==
    (ZxingRan /\ \E c \in ParsedCodes(Val(stdout)) :
                    c.uri # None /\ \A i \in 1..Len(fns) : c.uri # Some(AsUri(fns[i])))
    => outcome.kind = "raise"

\* C6: once decode has returned or raised, no temporary file it created is open or on disk.
C6_TempFilesDeleted == (call = "decode" /\ pc = "done") => tf_open = {}

\* C6 witness: decode created two temporary files and left with the error of the
\* steps that follow the backend's run
C6_Witness ==
    /\ call = "decode" /\ pc = "done"
    /\ Len(temp_files) = 2 /\ stdout # None
    /\ outcome.kind = "raise" /\ outcome.exc = "KeyError"

\* C7: a decode call that fails once its inputs are in place (the backend cannot be
\* started, exits with an error, reports an error, or prints blocks that are malformed
\* or match no input) raises BarCodeReaderException and no other exception.
C7_OnlyBarCodeReaderException ==
    (call = "decode" /\ pc = "done" /\ outcome.kind = "raise" /\ Len(fns) = Len(inputs.items))
    => outcome.exc = "BarCodeReaderException"

\* the backend printed one block per requested file, in some order: for one file the
\* block of a per-image error, for each of the others a decoded barcode or "No barcode found"
OneFileFailed(out, fs) ==
    /\ out.head = ""
    /\ Len(fs) >= 2 /\ Len(out.blocks) = Len(fs)
    /\ \A i, j \in 1..Len(fs) : fs[i] = fs[j] => i = j
    /\ \E p \in Perms(Len(fs)) : \E e \in 1..Len(fs) : \A i \in 1..Len(fs) :
          IF i = e
          THEN out.blocks[i].kind = "exc"
               \/ (out.blocks[i].kind = "load" /\ out.blocks[i].uri = UriTokens(fs[p[i]]))
          ELSE out.blocks[i].kind \in FileBlockKinds /\ out.blocks[i].uri = UriTokens(fs[p[i]])

\* C8: in a zxing batch, a per-image error in one file's block, at any position of the
\* output, does not abort the call: the other files' Results are returned.
C8_PerImageErrorIsolated ==
    (ZxingRan /\ OneFileFailed(Val(stdout), fns)) => outcome.kind = "return"

\* rxing-cli was started on a file and reported a barcode or NotFoundException
RxServed(run) ==
    /\ run.status = "ok"
    /\ RxStartsWithErrp(run.lines, run.fn) => run.lines[1][5] = "NotFoundException"

\* the backend did its part for every input
BackendServedAll ==
    \/ reader = "zxing" /\ stdout # None /\ OneBlockPerFile(Val(stdout), fns)
    \/ reader = "rxing" /\ invoked # <<>> /\ \A i \in 1..Len(invoked) : RxServed(invoked[i])

\* C10: decode of either reader, the backend having served every input, returns one
\* Result for one bare input and otherwise one Result per input, the i-th of the i-th input.
C10_OneResultPerInput ==
    (call = "decode" /\ pc = "done" /\ BackendServedAll)
    => /\ outcome.kind = "return"
       /\ IF one_file THEN outcome.value.uri = Some(AsUri(fns[1]))
          ELSE /\ Len(outcome.value) = Len(fns)
               /\ \A i \in 1..Len(fns) : outcome.value[i].uri = Some(AsUri(fns[i]))

-----------------------------------------------------------------------------
(* Properties of the parsers *)

\* format, type, raw, parsed, raw_bits and points are None
AllAbsent(c) ==
    /\ c.format = None /\ c.type = None /\ c.raw = None
    /\ c.parsed = None /\ c.raw_bits = None /\ c.points = None

\* C3: when parse_zxing reads, in state UNKNOWN, a line ending in ": No barcode found",
\* it returns a falsy Result whose uri is the text of that line before its final colon
\* and whose other fields are all None.
C3_NoBarcodeFound ==
    (call = "parse_zxing" /\ zn > 0 /\ zprev = "UNKNOWN"
       /\ \E k \in 1..Len(zline) : zline[k] = NO_BARCODE /\ \A j \in (k+1)..Len(zline) : zline[j] \in Whitespace)
    => /\ outcome.kind = "return"
       /\ AllAbsent(outcome.value)
       /\ ~Truthy(outcome.value)
       /\ outcome.value.uri # None
       /\ \E k \in 1..Len(zline) :
             /\ zline[k] = NO_BARCODE /\ \A j \in (k+1)..Len(zline) : zline[j] \in Whitespace
             /\ Val(outcome.value.uri) = Join(SubSeq(zline, 1, k - 1))

\* C3 witness: a header was read first, then the line of a file without barcode
C3_Witness ==
    /\ call = "parse_zxing" /\ pc = "done" /\ zn = 2 /\ zprev = "UNKNOWN"
    /\ zs.format # None
    /\ zline = <<FILE_SCHEME, "/d/a.png", NO_BARCODE, NL>>
    /\ outcome.kind = "return"

RxCalled == call = "parse_rxing" /\ pc = "done"

\* C4: parse_rxing on output that starts with the error prefix for fn returns a falsy
\* Result with the file URI of fn and nothing else when the reason is NotFoundException,
\* and raises BarCodeReaderException(reason, fn) for any other reason.
C4_RxingErrorPrefix ==
    (RxCalled /\ RxStartsWithErrp(invoked[1].lines, invoked[1].fn))
    => IF invoked[1].lines[1][5] = "NotFoundException"
       THEN /\ outcome.kind = "return"
            /\ outcome.value.uri = Some(AsUri(invoked[1].fn))
            /\ AllAbsent(outcome.value) /\ ~Truthy(outcome.value)
       ELSE /\ outcome.kind = "raise" /\ outcome.exc = "BarCodeReaderException"
            /\ outcome.message = invoked[1].lines[1][5]
            /\ outcome.filename = Some(invoked[1].fn)

\* the output has a [Barcode Format] line and a [Data] line and no error prefix
RxSuccessful(run) ==
    /\ ~RxStartsWithErrp(run.lines, run.fn)
    /\ \E i \in 1..Len(run.lines) : StartsWith(run.lines[i], BARCODE_FORMAT)
    /\ \E i \in 1..Len(run.lines) : StartsWith(run.lines[i], DATA)

\* C5: parse_rxing on a successful output returns a Result whose raw and parsed are the
\* decoded [Data] text, whose type is TEXT, whose raw_bits is None and whose uri is the
\* file URI of the absolute path of fn.
C5_RxingSuccess ==
    (RxCalled /\ RxSuccessful(invoked[1]))
    => /\ outcome.kind = "return"
       /\ outcome.value.raw # None /\ Val(outcome.value.raw) # <<>>
       /\ outcome.value.parsed = outcome.value.raw
       /\ outcome.value.type = Some("TEXT")
       /\ outcome.value.raw_bits = None
       /\ outcome.value.uri = Some(AsUri(invoked[1].fn))

\* a field is None or empty
Empty(o) == o = None \/ Val(o) = <<>>

\* C9: every Result a parser returns is successful (raw non-empty, format and parsed
\* present) or a failure (format, type, raw, parsed, raw_bits all absent; here a field
\* counts as absent when it is None or empty, which the claim's reading implies).
C9_NoMixedResult ==
    (call \in {"parse_zxing", "parse_rxing"} /\ pc = "done" /\ outcome.kind = "return")
    => LET c == outcome.value IN
       \/ Truthy(c) /\ c.format # None /\ c.parsed # None
       \/ c.format = None /\ c.type = None /\ Empty(c.raw) /\ Empty(c.parsed) /\ Empty(c.raw_bits)

\* C11: parse_rxing decodes the [Data] line rxing-cli prints for a payload back to that
\* payload, character for character, whatever escapes the line holds.
C11_DataRoundTrip ==
    (RxCalled /\ payload # None) => (rs.exc = None /\ rs.raw = Val(payload))

\* urllib.parse.unquote on a path: %XX is decoded, nothing else changes
PercentDecode(p) ==
    CASE p = "/cwd/b%20c.png" -> "/cwd/b c.png"
      [] p = "/tmp/a%2Bb.png" -> "/tmp/a+b.png"
      [] OTHER -> p

\* C12: BarCode.path of a BarCode whose uri is a file URI with an empty network location
\* is the percent-decoded path of the URI; with a network location or with another scheme
\* it is None; path never raises and uri stays as it was.
C12_Path ==
    (call = "path" /\ pc = "done" /\ self.uri # None)
    => LET u == CHOOSE u \in Uris : Join(u) = Val(self.uri) IN
       /\ outcome.kind = "return"
       /\ self.uri = Some(Join(u))
       /\ (u[1] = FILE_SCHEME /\ u[2] \in RootedPaths)
             => outcome.value = Some(PercentDecode(u[2]))
       /\ (u[1] # FILE_SCHEME \/ u[2] \in Netlocs) => outcome.value = None

\* C13: data_uri_to_fobj of the data URI built from bytes and a mime type, in the Base64
\* form or in the percent-encoded form, returns a buffer whose content is those bytes and
\* whose name ends with "." followed by the subtype of the mime type.
C13_DataUriRoundTrip ==
    (call = "data_uri_to_fobj" /\ pc = "done" /\ content # None)
    => /\ outcome.kind = "return"
       /\ outcome.value.value = Val(content).bytes
       /\ LET name == outcome.value.name IN
          Len(name) >= 2 /\ SubSeq(name, Len(name) - 1, Len(name)) = <<".", Last(Val(content).mime)>>

\* C13 witness: two bytes, so that the Base64 text ends with one "=", were recovered
C13_Witness ==
    /\ call = "data_uri_to_fobj" /\ pc = "done"
    /\ content = Some([bytes |-> <<255, 63>>, mime |-> <<"image", "/", "png">>, base64 |-> TRUE])
    /\ data_uri = <<"data:", "image", "/", "png", ";base64", ",", "/", "z", "8", "=">>
    /\ outcome.kind = "return" /\ outcome.value.value = <<255, 63>>

\* the place of a block state in UNKNOWN -> RAW -> PARSED -> RAW_BITS -> POINTS
BlockOrder(b) ==
    CASE b = "UNKNOWN" -> 0 [] b = "RAW" -> 1 [] b = "PARSED" -> 2 [] b = "RAW_BITS" -> 3
      [] b = "POINTS" -> 4

\* C14: every line parse_zxing reads leaves its block state where it was or moves it
\* forward along UNKNOWN -> RAW -> PARSED -> (RAW_BITS ->) POINTS; RAW is entered only once a
\* header line has matched; POINTS is never left; and in RAW, PARSED and RAW_BITS a line that
\* is not a marker is appended unchanged to the accumulator of that state.
C14_BlockStateForward ==
    [][(call = "parse_zxing" /\ zn' = zn + 1)
       => /\ BlockOrder(zs'.block) >= BlockOrder(zs.block)
          /\ <<zs.block, zs'.block>> \in
                {<<b, b>> : b \in {"UNKNOWN", "RAW", "PARSED", "RAW_BITS", "POINTS"}}
                \union {<<"UNKNOWN", "RAW">>, <<"RAW", "PARSED">>, <<"PARSED", "RAW_BITS">>,
                        <<"PARSED", "POINTS">>, <<"RAW_BITS", "POINTS">>}
          /\ (zs.block = "UNKNOWN" /\ zs'.block = "RAW") => zs.uri # None
          /\ zs.block = "POINTS" => zs'.block = "POINTS"
          /\ (zs.block = "RAW" /\ zs'.block = "RAW") => zs'.raw = zs.raw \o zline'
          /\ (zs.block = "PARSED" /\ zs'.block = "PARSED") => zs'.parsed = zs.parsed \o zline'
          /\ (zs.block = "RAW_BITS" /\ zs'.block = "RAW_BITS") => zs'.raw_bits = zs.raw_bits \o zline'
      ]_vars

\* an accumulator without the one newline byte at its end, if it ends with one
StripOneNewline(b) == IF b # <<>> /\ Last(b) = NL THEN SubSeq(b, 1, Len(b) - 1) ELSE b

\* C15: the raw, parsed and raw_bits of the Result parse_zxing returns after its loop are
\* the Raw, Parsed and Raw-bits accumulators less one trailing newline byte and no other
\* byte (raw_bits read as hex digits), also when an accumulator is empty or does not end
\* with a newline.
C15_OneTrailingNewline ==
    (call = "parse_zxing" /\ pc = "done" /\ zs.ret = None /\ outcome.kind = "return")
    => /\ outcome.value.raw = Some(StripOneNewline(zs.raw))
       /\ outcome.value.parsed = Some(StripOneNewline(zs.parsed))
       /\ HexOk(StripOneNewline(zs.raw_bits))
             => outcome.value.raw_bits = Some(FromHex(StripOneNewline(zs.raw_bits)))

\* which of the six rules apply to a captured output, in the order of the claim
RulesThatApply(out) ==
    LET lines == StdoutLines(out) IN
    {k \in 1..6 :
        CASE k = 1 -> StdoutStartsWith(lines, <<NO_MAIN_CLASS>>)
                      \/ StdoutStartsWith(lines, <<EXCEPTION, SP, IN_THREAD_NOCLASSDEF>>)
          [] k = 2 -> StdoutStartsWith(lines, <<EXCEPTION, SP, IN_THREAD_IIO>>)
          [] k = 3 -> StdoutStartsWith(lines, <<EXCEPTION, SP, IN_THREAD_LOAD>>)
          [] k = 4 -> StdoutStartsWith(lines, <<EXCEPTION, SP>>)
          [] k = 5 -> StdoutStartsWith(lines, <<NO_JAVA_RUNTIME>>)
          [] k = 6 -> out.returncode # 0}

\* the message each rule raises BarCodeReaderException with
RuleMessage ==
    <<"Java JARs not found in classpath",
      "Java library could not read image",
      "Java library could not read image (is it in a supported format?)",
      "Unknown Java exception",
      "Unable to locate Java runtime (check JAVA_HOME variable and other configuration)",
      "Unexpected Java subprocess return code">>

\* C16: once the zxing backend has run, _decode raises the error of the first of the six
\* rules that applies to its stdout and return code (classes not found, image stream not
\* opened, image not loaded, other "Exception ", no Java runtime, nonzero exit code); when
\* none applies it raises none of them: stdout is split into blocks and parsed.
C16_ClassificationOrder ==
    ZxingRan =>
      LET rules == RulesThatApply(Val(stdout)) IN
      IF rules = {}
      THEN ~(outcome.kind = "raise" /\ outcome.exc = "BarCodeReaderException")
      ELSE /\ outcome.kind = "raise" /\ outcome.exc = "BarCodeReaderException"
           /\ outcome.message = RuleMessage[CHOOSE k \in rules : \A j \in rules : k <= j]

\* C16 witness: the image stream could not be opened and java exited with 1, so that
\* rules 2, 4 and 6 apply, and the error is that of rule 2
C16_Witness ==
    /\ ZxingRan
    /\ RulesThatApply(Val(stdout)) = {2, 4, 6}
    /\ outcome.message = "Java library could not read image"

====
